---------------------------- MODULE Spec2Model ----------------------------
(***************************************************************************)
(* Model of the browser page session controller, class Page of             *)
(* packages/scanner-global-library/src/page.ts.                            *)
(*                                                                         *)
(* The controller's fields are the state.  Its public methods are the      *)
(* actions.  The collaborators (web driver, page navigator, axe engine,    *)
(* privacy engine) are the environment: their outcomes are drawn from      *)
(* small sets.  Calls are made one after another (pc = "idle" between      *)
(* calls); navigateToUrl and scanForPrivacy suspend at their awaits, so    *)
(* they take several steps.                                                *)
(*                                                                         *)
(* JavaScript values:                                                      *)
(*   - undefined object      -> Undefined                                  *)
(*   - undefined string      -> NoUrl                                      *)
(*   - undefined number      -> NoStatus                                   *)
(*   - an object literal     -> a record whose DOMAIN holds exactly the    *)
(*                              keys the code sets                         *)
(*   - an error message      -> a record [text |-> ..] (so that every      *)
(*                              `error` value is a record)                 *)
(*   - a URL                 -> a sequence of characters                   *)
(***************************************************************************)
EXTENDS Integers, Sequences, FiniteSets, TLC

VARIABLES
    requestUrl,             \* Page.requestUrl
    page,                   \* Page.page: "none" (undefined), "open", "closed"
    browser,                \* Page.browser / the driver's browser process
    lastNavigationResponse, \* Page.lastNavigationResponse
    lastBrowserError,       \* Page.lastBrowserError
    hasLogger,              \* whether the optional logger was injected
    pageUrl,                \* what page.url() returns
    pc,                     \* where the call in flight is suspended
    navigationStatusCode,   \* local of scanPageForCookies
    reloads,                \* reload callbacks the privacy engine made during the last call
    log,                    \* what the call in flight (or the last call) logged
    call,                   \* the last call made: its name and the state it started in
    reported,               \* what the navigation collaborator reported in the latest attempt
    result,                 \* how the last call ended: value, void or fault
    answered,               \* what the navigation collaborator returned in the latest attempt
    reloadResponse,         \* what reloadPageFunc last returned to the privacy engine
    observed                \* what a call made while a navigation is in flight saw

vars == <<requestUrl, page, browser, lastNavigationResponse, lastBrowserError,
          hasLogger, pageUrl, pc, navigationStatusCode, reloads, log, call,
          reported, result, answered, reloadResponse, observed>>

-----------------------------------------------------------------------------
(* Bounds *)

MaxReloads == 2

MaxSubResults == 2

MaxRedirects == 1

-----------------------------------------------------------------------------
(* Values *)

Undefined == [undefined |-> TRUE]

NoUrl == <<>>

NoStatus == -1

\* URLs are sequences of characters.
UrlPlain == <<"a">>

UrlSpace == <<"a", " ">>

UrlEncoded == <<"a", "%", "2", "0">>

UrlBlank == <<"about:blank">>

\* the URLs a caller passes to navigateToUrl
RequestUrls == {UrlPlain, UrlSpace}

\* the URLs a page shows after a navigation, and the URLs axe reports
LandingUrls == {UrlPlain, UrlEncoded}

StatusCodes == {200, 304}

\* Puppeteer's HTTPResponse, as far as the controller reads it:
\* status(), ok() and request().redirectChain().length
Responses ==
    { r \in [status : StatusCodes, redirects : 0..MaxRedirects, ok : BOOLEAN] :
        r.ok = (r.status >= 200 /\ r.status <= 299) }

BrowserErrors ==
    { [errorType |-> "HttpErrorCode", statusCode |-> 404],
      [errorType |-> "UrlNavigationTimeout", statusCode |-> NoStatus] }

\* faults of the engines, as System.serializeError shows them
EngineFaults == {"crash"}

\* one entry of PrivacyResults.cookieCollectionConsentResults
SubResults ==
    { [scenario |-> "s"],
      [scenario |-> "s", error |-> [text |-> "E1"]],
      [scenario |-> "s", error |-> [text |-> "E2"]] }

RECURSIVE SeqsUpTo(_, _)
SeqsUpTo(S, n) ==
    IF n = 0 THEN {<<>>}
    ELSE LET shorter == SeqsUpTo(S, n - 1)
         IN  shorter \cup {Append(s, x) : s \in {t \in shorter : Len(t) = n - 1}, x \in S}

-----------------------------------------------------------------------------
(* Pure helpers *)

\* encodeURI, on the characters the model's URLs use: a space and a percent
\* sign are escaped, every other character is kept.
EncodeChar(c) ==
    IF c = " " THEN <<"%", "2", "0">>
    ELSE IF c = "%" THEN <<"%", "2", "5">>
    ELSE <<c>>

RECURSIVE EncodeURI(_)
EncodeURI(url) ==
    IF url = <<>> THEN <<>>
    ELSE EncodeChar(Head(url)) \o EncodeURI(Tail(url))

\* this.logger?.logX(...): a no-op without a logger
Logged(logSoFar, entry) == IF hasLogger THEN Append(logSoFar, entry) ELSE logSoFar

\* isOpen that forgets page.isClosed()
IsOpenIgnoringClosed ==
    /\ page # "none"
    /\ lastBrowserError = Undefined
    /\ lastNavigationResponse # Undefined

\* isOpen that forgets the navigation response
IsOpenWithoutResponse ==
    /\ page # "none"
    /\ page # "closed"
    /\ lastBrowserError = Undefined

\* Page.isOpen
IsOpen ==
    /\ page # "none"
    /\ page # "closed"
    /\ lastBrowserError = Undefined
    /\ lastNavigationResponse # Undefined

\* the gate with its two checks in the other order
GateNotReadyFirst ==
    IF ~IsOpen THEN "notReady"
    ELSE IF lastBrowserError # Undefined THEN "error"
    ELSE "run"

\* Page.runIfNavigationSucceeded: which of its three exits is taken
RunIfNavigationSucceeded ==
    IF lastBrowserError # Undefined THEN "error"
    ELSE IF ~IsOpen THEN "notReady"
    ELSE "run"

\* the result of the first exit
GateErrorResult ==
    [error |-> lastBrowserError, pageResponseCode |-> lastBrowserError.statusCode]

NotReadyFault == [kind |-> "fault", fault |-> "Page is not ready"]

\* the condition comparing the requested URL as it was given
IsRedirectedRawCompare(observedUrl) ==
    \/ lastNavigationResponse.redirects > 0
    \/ (requestUrl # NoUrl /\ requestUrl # observedUrl)

\* the condition without the redirect chain
IsRedirectedUrlOnly(observedUrl) ==
    requestUrl # NoUrl /\ EncodeURI(requestUrl) # observedUrl

\* the condition of lines 126-130 and 164-168
IsRedirected(observedUrl) ==
    \/ lastNavigationResponse.redirects > 0
    \/ (requestUrl # NoUrl /\ EncodeURI(requestUrl) # observedUrl)

RedirectWarning(observedUrl) ==
    [level |-> "warn", message |-> "Scanning performed on redirected page",
     redirectedUrl |-> observedUrl]

HasError(subResult) == "error" \in DOMAIN subResult

ErrorOf(subResult) == subResult.error

RECURSIVE MapErrors(_)
MapErrors(subs) ==
    IF subs = <<>> THEN <<>>
    ELSE <<ErrorOf(Head(subs))>> \o MapErrors(Tail(subs))

\* lines 173-175: the errors of the sub-results that carry one, in list order
CollectErrors(subs) == MapErrors(SelectSeq(subs, HasError))

\* what a call records when it starts: the session it starts in and (filled
\* in later) whether it invoked a scan engine, what the engine answered, and
\* the URL the engine's last reload was given
Entry(op) ==
    [op |-> op, error |-> lastBrowserError, response |-> lastNavigationResponse,
     page |-> page, requestUrl |-> requestUrl, reported |-> reported,
     engine |-> FALSE, outcome |-> [kind |-> "none"], reloadUrl |-> NoUrl]

-----------------------------------------------------------------------------
(* Collaborators *)

\* PageNavigator.navigate: it returns a response, or reports an error through
\* the callback and returns undefined.  It configures the page before it loads
\* the URL, so on a page handle that is missing or closed it faults.
NavigateOutcomes ==
    IF page = "open"
    THEN {[kind |-> "response", response |-> r, url |-> u] :
              r \in Responses, u \in LandingUrls}
         \cup {[kind |-> "error", error |-> e] : e \in BrowserErrors}
    ELSE {[kind |-> "fault"]}

\* AxePuppeteer.analyze
AxeOutcomes ==
    {[kind |-> "fault", fault |-> f] : f \in EngineFaults}
    \cup {[kind |-> "results", url |-> u] : u \in LandingUrls}

\* WebDriver.close: closes the browser it started, and with it the page
DriverClose ==
    /\ browser' = IF browser = "running" THEN "closed" ELSE browser
    /\ page' = IF page = "open" THEN "closed" ELSE page

-----------------------------------------------------------------------------
(* The initial state: a constructed controller *)

Init ==
    /\ requestUrl = NoUrl
    /\ page = "none"
    /\ browser = "none"
    /\ lastNavigationResponse = Undefined
    /\ lastBrowserError = Undefined
    /\ hasLogger \in BOOLEAN
    /\ pageUrl = UrlBlank
    /\ pc = "idle"
    /\ navigationStatusCode = NoStatus
    /\ reloads = 0
    /\ log = <<>>
    /\ call = [op |-> "none"]
    /\ reported = Undefined
    /\ result = [kind |-> "none"]
    /\ answered = [kind |-> "none"]
    /\ reloadResponse = Undefined
    /\ observed = [kind |-> "none"]

-----------------------------------------------------------------------------
(* create and close *)

\* what create records: whether an endpoint was given, the calls it made to
\* the driver, the pages it opened, and the page handle it started with
CreateRecord(endpoint, driverCalls, newPages) ==
    [op |-> "create", endpoint |-> endpoint, driverCalls |-> driverCalls,
     newPages |-> newPages, page |-> page]

\* create that starts a fresh session: it also forgets the last navigation
CreateResettingNavigation(endpoint, driverOk) ==
    /\ pc = "idle"
    /\ call' = CreateRecord(endpoint,
                            IF endpoint THEN <<"connect">> ELSE <<"launch">>,
                            IF driverOk THEN 1 ELSE 0)
    /\ log' = <<>>
    /\ IF driverOk
       THEN /\ browser' = "running"
            /\ page' = "open"
            /\ pageUrl' = UrlBlank
            /\ result' = [kind |-> "void"]
       ELSE /\ UNCHANGED <<browser, page, pageUrl>>
            /\ result' = [kind |-> "fault", fault |-> "driver"]
    /\ reloads' = 0
    /\ lastNavigationResponse' = Undefined
    /\ UNCHANGED <<requestUrl, lastBrowserError, hasLogger,
                   pc, navigationStatusCode, reported, answered, reloadResponse,
                   observed>>

\* create that always launches a browser of its own
CreateAlwaysLaunching(endpoint, driverOk) ==
    /\ pc = "idle"
    /\ call' = CreateRecord(endpoint, <<"launch">>, IF driverOk THEN 1 ELSE 0)
    /\ log' = <<>>
    /\ IF driverOk
       THEN /\ browser' = "running"
            /\ page' = "open"
            /\ pageUrl' = UrlBlank
            /\ result' = [kind |-> "void"]
       ELSE /\ UNCHANGED <<browser, page, pageUrl>>
            /\ result' = [kind |-> "fault", fault |-> "driver"]
    /\ reloads' = 0
    /\ UNCHANGED <<requestUrl, lastNavigationResponse, lastBrowserError, hasLogger,
                   pc, navigationStatusCode, reported, answered, reloadResponse,
                   observed>>

\* Page.create: connect when an endpoint is given, launch otherwise, then
\* open a page.  A fault of the driver propagates (line 62 is not reached).
Create(endpoint, driverOk) ==
    /\ pc = "idle"
    /\ call' = CreateRecord(endpoint,
                            IF endpoint THEN <<"connect">> ELSE <<"launch">>,
                            IF driverOk THEN 1 ELSE 0)
    /\ log' = <<>>
    /\ IF driverOk
       THEN /\ browser' = "running"
            /\ page' = "open"
            /\ pageUrl' = UrlBlank
            /\ result' = [kind |-> "void"]
       ELSE /\ UNCHANGED <<browser, page, pageUrl>>
            /\ result' = [kind |-> "fault", fault |-> "driver"]
    /\ reloads' = 0
    /\ UNCHANGED <<requestUrl, lastNavigationResponse, lastBrowserError, hasLogger,
                   pc, navigationStatusCode, reported, answered, reloadResponse,
                   observed>>

\* close that goes to the browser handle, which a session that was never
\* created does not have
CloseViaBrowser ==
    /\ pc = "idle"
    /\ call' = Entry("close") @@ [previous |-> call.op]
    /\ log' = <<>>
    /\ DriverClose
    /\ result' = IF browser = "none" THEN [kind |-> "fault", fault |-> "TypeError"]
                 ELSE [kind |-> "void"]
    /\ reloads' = 0
    /\ UNCHANGED <<requestUrl, lastNavigationResponse, lastBrowserError, hasLogger,
                   pageUrl, pc, navigationStatusCode, reported, answered,
                   reloadResponse, observed>>

\* Page.close (the call record also keeps which call came before)
Close ==
    /\ pc = "idle"
    /\ call' = Entry("close") @@ [previous |-> call.op]
    /\ log' = <<>>
    /\ DriverClose
    /\ result' = [kind |-> "void"]
    /\ reloads' = 0
    /\ UNCHANGED <<requestUrl, lastNavigationResponse, lastBrowserError, hasLogger,
                   pageUrl, pc, navigationStatusCode, reported, answered,
                   reloadResponse, observed>>

-----------------------------------------------------------------------------
(* navigateToUrl *)

\* navigateToUrl that does not clear the recorded error
NavigateToUrlBeginKeepingError(url) ==
    /\ requestUrl' = url
    /\ reported' = Undefined
    /\ answered' = [kind |-> "pending"]
    /\ UNCHANGED lastBrowserError

\* lines 66-67, up to the await
NavigateToUrlBegin(url) ==
    /\ requestUrl' = url
    /\ lastBrowserError' = Undefined
    /\ reported' = Undefined
    /\ answered' = [kind |-> "pending"]

\* navigateToUrl that stores only a response that exists
NavigateToUrlEndKeepingResponse(o) ==
    /\ o \in NavigateOutcomes
    /\ CASE o.kind = "response" ->
              /\ lastNavigationResponse' = o.response
              /\ pageUrl' = o.url
              /\ reported' = Undefined
              /\ answered' = [kind |-> "response", response |-> o.response]
              /\ UNCHANGED <<lastBrowserError, log>>
         [] o.kind = "error" ->
              /\ lastBrowserError' = o.error
              /\ log' = Logged(log, [level |-> "error",
                                     message |-> "Page navigation error",
                                     browserError |-> o.error])
              /\ reported' = o.error
              /\ answered' = [kind |-> "undefined"]
              /\ UNCHANGED <<lastNavigationResponse, pageUrl>>
         [] o.kind = "fault" ->
              /\ answered' = [kind |-> "fault"]
              /\ UNCHANGED <<lastNavigationResponse, lastBrowserError, pageUrl, log, reported>>

\* lines 68-71: the collaborator runs; the callback records and logs the
\* error; the returned value is stored
NavigateToUrlEnd(o) ==
    /\ o \in NavigateOutcomes
    /\ CASE o.kind = "response" ->
              /\ lastNavigationResponse' = o.response
              /\ pageUrl' = o.url
              /\ reported' = Undefined
              /\ answered' = [kind |-> "response", response |-> o.response]
              /\ UNCHANGED <<lastBrowserError, log>>
         [] o.kind = "error" ->
              /\ lastBrowserError' = o.error
              /\ log' = Logged(log, [level |-> "error",
                                     message |-> "Page navigation error",
                                     browserError |-> o.error])
              /\ lastNavigationResponse' = Undefined
              /\ reported' = o.error
              /\ answered' = [kind |-> "undefined"]
              /\ UNCHANGED pageUrl
         [] o.kind = "fault" ->
              /\ answered' = [kind |-> "fault"]
              /\ UNCHANGED <<lastNavigationResponse, lastBrowserError, pageUrl, log, reported>>

\* a navigateToUrl that drops the previous response before it awaits
NavigateToUrlCallClearingResponse(url) ==
    /\ pc = "idle"
    /\ NavigateToUrlBegin(url)
    /\ lastNavigationResponse' = Undefined
    /\ pc' = "navigate"
    /\ call' = [op |-> "navigateToUrl", url |-> url,
                priorError |-> lastBrowserError,
                priorResponse |-> lastNavigationResponse]
    /\ log' = <<>>
    /\ result' = [kind |-> "pending"]
    /\ reloads' = 0
    /\ UNCHANGED <<page, browser, hasLogger, pageUrl,
                   navigationStatusCode, reloadResponse, observed>>

NavigateToUrlCall(url) ==
    /\ pc = "idle"
    /\ NavigateToUrlBegin(url)
    /\ pc' = "navigate"
    /\ call' = [op |-> "navigateToUrl", url |-> url,
                priorError |-> lastBrowserError,
                priorResponse |-> lastNavigationResponse]
    /\ log' = <<>>
    /\ result' = [kind |-> "pending"]
    /\ reloads' = 0
    /\ UNCHANGED <<page, browser, lastNavigationResponse, hasLogger, pageUrl,
                   navigationStatusCode, reloadResponse, observed>>

NavigateToUrlReturn(o) ==
    /\ pc = "navigate"
    /\ NavigateToUrlEnd(o)
    /\ pc' = "idle"
    /\ result' = IF o.kind = "fault" THEN [kind |-> "fault", fault |-> "navigator"]
                 ELSE [kind |-> "void"]
    /\ observed' = [kind |-> "none"]
    /\ UNCHANGED <<requestUrl, page, browser, hasLogger, navigationStatusCode,
                   reloads, call, reloadResponse>>

-----------------------------------------------------------------------------
(* scanForA11yIssues *)

EngineErrorResult(engine, fault) ==
    [error |-> [text |-> engine, cause |-> fault], scannedUrl |-> pageUrl]

EngineErrorLog(engine, fault) ==
    [level |-> "error", message |-> engine, browserError |-> fault, url |-> pageUrl]

\* a success result that reports the response code of a page that loaded
AxeScanResultsFixedStatus(o) ==
    [results |-> [url |-> o.url],
     pageTitle |-> "title",
     browserSpec |-> "version",
     pageResponseCode |-> 200,
     userAgent |-> "agent",
     browserResolution |-> "resolution"]

\* lines 117-124
AxeScanResults(o) ==
    [results |-> [url |-> o.url],
     pageTitle |-> "title",
     browserSpec |-> "version",
     pageResponseCode |-> lastNavigationResponse.status,
     userAgent |-> "agent",
     browserResolution |-> "resolution"]

\* Page.scanPageForIssues: what it returns and what it logs
ScanPageForIssues(o) ==
    IF o.kind = "fault"
    THEN [value |-> EngineErrorResult("Axe core engine error", o.fault),
          log |-> Logged(<<>>, EngineErrorLog("Axe core engine error", o.fault))]
    ELSE IF IsRedirected(o.url)
    THEN [value |-> AxeScanResults(o) @@ [scannedUrl |-> o.url],
          log |-> Logged(<<>>, RedirectWarning(o.url))]
    ELSE [value |-> AxeScanResults(o), log |-> <<>>]

\* Page.scanForA11yIssues, through the gate
ScanForA11yIssues(o) ==
    /\ pc = "idle"
    /\ o \in AxeOutcomes
    /\ CASE RunIfNavigationSucceeded = "error" ->
              /\ result' = [kind |-> "value", value |-> GateErrorResult]
              /\ call' = Entry("scanForA11yIssues")
              /\ log' = <<>>
         [] RunIfNavigationSucceeded = "notReady" ->
              /\ result' = NotReadyFault
              /\ call' = Entry("scanForA11yIssues")
              /\ log' = <<>>
         [] RunIfNavigationSucceeded = "run" ->
              /\ result' = [kind |-> "value", value |-> ScanPageForIssues(o).value]
              /\ call' = [Entry("scanForA11yIssues") EXCEPT !.engine = TRUE,
                                                            !.outcome = o]
              /\ log' = ScanPageForIssues(o).log
    /\ reloads' = 0
    /\ UNCHANGED <<requestUrl, page, browser, lastNavigationResponse, lastBrowserError,
                   hasLogger, pageUrl, pc, navigationStatusCode, reported, answered,
                   reloadResponse, observed>>

-----------------------------------------------------------------------------
(* scanForPrivacy *)

TypeErrorFault == [kind |-> "fault", fault |-> "TypeError"]

\* the result read from the response that is current when the engine returns
PrivacyScanResultLateStatus(subs) ==
    [results |-> [cookieCollectionConsentResults |-> subs,
                  httpStatusCode |-> lastNavigationResponse.status,
                  seedUri |-> requestUrl],
     pageResponseCode |-> lastNavigationResponse.status]

\* a result whose seed URL is the URL the page is on
PrivacyScanResultSeedFromPage(subs) ==
    [results |-> [cookieCollectionConsentResults |-> subs,
                  httpStatusCode |-> navigationStatusCode,
                  seedUri |-> pageUrl],
     pageResponseCode |-> navigationStatusCode]

\* lines 155-162
PrivacyScanResult(subs) ==
    [results |-> [cookieCollectionConsentResults |-> subs,
                  httpStatusCode |-> navigationStatusCode,
                  seedUri |-> requestUrl],
     pageResponseCode |-> navigationStatusCode]

CookieErrorLog(errors) ==
    [level |-> "error", message |-> "Failed to collect cookies for test scenario.",
     url |-> pageUrl, errors |-> errors]

\* lines 173-184: the sub-results' errors are logged through this.logger
\* (with no `?.`) and the first one becomes the result's error
AggregateErrors(scanResult, logSoFar, subs) ==
    LET errors == CollectErrors(subs)
    IN  IF errors = <<>>
        THEN [result |-> [kind |-> "value", value |-> scanResult], log |-> logSoFar]
        ELSE IF ~hasLogger
        THEN [result |-> TypeErrorFault, log |-> logSoFar]
        ELSE [result |-> [kind |-> "value",
                          value |-> scanResult @@ [error |-> errors[1]]],
              log |-> Append(logSoFar, CookieErrorLog(errors))]

\* Page.scanPageForCookies after the engine has returned `subs`
\* (lines 155-184): how the call ends and what it logs
ScanPageForCookies(subs) ==
    IF lastNavigationResponse = Undefined
    THEN [result |-> TypeErrorFault, log |-> log]
    ELSE IF IsRedirected(pageUrl)
    THEN AggregateErrors(PrivacyScanResult(subs) @@ [scannedUrl |-> pageUrl],
                         Logged(log, RedirectWarning(pageUrl)), subs)
    ELSE AggregateErrors(PrivacyScanResult(subs), log, subs)

\* Page.scanForPrivacy up to the call of the engine (lines 78-79, 92-104,
\* 139-148)
ScanForPrivacyCall ==
    /\ pc = "idle"
    /\ log' = <<>>
    /\ reloads' = 0
    /\ CASE RunIfNavigationSucceeded = "error" ->
              /\ result' = [kind |-> "value", value |-> GateErrorResult]
              /\ call' = Entry("scanForPrivacy")
              /\ UNCHANGED <<pc, navigationStatusCode>>
         [] RunIfNavigationSucceeded = "notReady" ->
              /\ result' = NotReadyFault
              /\ call' = Entry("scanForPrivacy")
              /\ UNCHANGED <<pc, navigationStatusCode>>
         [] RunIfNavigationSucceeded = "run" ->
              /\ result' = [kind |-> "pending"]
              /\ call' = [Entry("scanForPrivacy") EXCEPT !.engine = TRUE]
              /\ navigationStatusCode' = lastNavigationResponse.status
              /\ pc' = "privacy"
    /\ reloadResponse' = Undefined
    /\ UNCHANGED <<requestUrl, page, browser, lastNavigationResponse, lastBrowserError,
                   hasLogger, pageUrl, reported, answered, observed>>

\* reloadPageFunc that calls a reload successful when it got any response
ReloadPageResponseWhenExists ==
    [success |-> lastNavigationResponse # Undefined, error |-> lastBrowserError]

\* line 143: what reloadPageFunc returns, from the session as it then is
ReloadPageResponse ==
    [success |-> (lastNavigationResponse # Undefined /\ lastNavigationResponse.ok),
     error |-> lastBrowserError]

\* reloadPageFunc, called by the privacy engine: line 141 up to the await
ReloadPageCall ==
    /\ pc = "privacy"
    /\ reloads < MaxReloads
    /\ NavigateToUrlBegin(pageUrl)
    /\ reloads' = reloads + 1
    /\ pc' = "reload"
    /\ call' = [call EXCEPT !.reloadUrl = pageUrl]
    /\ UNCHANGED <<page, browser, lastNavigationResponse, hasLogger, pageUrl,
                   navigationStatusCode, log, result, reloadResponse, observed>>

\* reloadPageFunc: the navigation ends and the callback returns to the engine
ReloadPageReturn(o) ==
    /\ pc = "reload"
    /\ NavigateToUrlEnd(o)
    /\ reloadResponse' = ReloadPageResponse'
    /\ pc' = "privacy"
    /\ UNCHANGED <<requestUrl, page, browser, hasLogger, navigationStatusCode,
                   reloads, call, result, observed>>

\* the privacy engine faults (lines 149-153)
ScanForPrivacyEngineFault(f) ==
    /\ pc = "privacy"
    /\ result' = [kind |-> "value",
                  value |-> EngineErrorResult("Privacy scan engine error", f)]
    /\ log' = Logged(log, EngineErrorLog("Privacy scan engine error", f))
    /\ call' = [call EXCEPT !.outcome = [kind |-> "fault", fault |-> f]]
    /\ pc' = "idle"
    /\ navigationStatusCode' = NoStatus
    /\ reloadResponse' = Undefined
    /\ UNCHANGED <<requestUrl, page, browser, lastNavigationResponse, lastBrowserError,
                   hasLogger, pageUrl, reloads, reported, answered, observed>>

\* the privacy engine returns its sub-results (lines 155-184)
ScanForPrivacyReturn(subs) ==
    /\ pc = "privacy"
    /\ result' = ScanPageForCookies(subs).result
    /\ log' = ScanPageForCookies(subs).log
    /\ call' = [call EXCEPT !.outcome = [kind |-> "results", subResults |-> subs]]
    /\ pc' = "idle"
    /\ navigationStatusCode' = NoStatus
    /\ reloadResponse' = Undefined
    /\ UNCHANGED <<requestUrl, page, browser, lastNavigationResponse, lastBrowserError,
                   hasLogger, pageUrl, reloads, reported, answered, observed>>

-----------------------------------------------------------------------------
(* The specification: calls made one after another *)

Next ==
    \/ \E endpoint \in BOOLEAN, driverOk \in BOOLEAN : Create(endpoint, driverOk)
    \/ Close
    \/ \E url \in RequestUrls : NavigateToUrlCall(url)
    \/ \E o \in NavigateOutcomes : NavigateToUrlReturn(o)
    \/ \E o \in AxeOutcomes : ScanForA11yIssues(o)
    \/ ScanForPrivacyCall
    \/ ReloadPageCall
    \/ \E o \in NavigateOutcomes : ReloadPageReturn(o)
    \/ \E f \in EngineFaults : ScanForPrivacyEngineFault(f)
    \/ \E subs \in SeqsUpTo(SubResults, MaxSubResults) : ScanForPrivacyReturn(subs)

Spec == Init /\ [][Next]_vars

-----------------------------------------------------------------------------
(* calls made while navigateToUrl is suspended at its await (line 68) *)

\* Page.isOpen called by another caller while the navigation is in flight
InterleavedIsOpen ==
    /\ pc = "navigate"
    /\ observed' = [kind |-> "isOpen", isOpen |-> IsOpen]
    /\ UNCHANGED <<requestUrl, page, browser, lastNavigationResponse, lastBrowserError,
                   hasLogger, pageUrl, pc, navigationStatusCode, reloads, log, call,
                   reported, result, answered, reloadResponse>>

\* a scan method called by another caller while the navigation is in flight:
\* the gate runs up to its first await on the state as it then is
InterleavedScan ==
    /\ pc = "navigate"
    /\ observed' = [kind |-> "scan", isOpen |-> IsOpen,
                    gate |-> RunIfNavigationSucceeded]
    /\ UNCHANGED <<requestUrl, page, browser, lastNavigationResponse, lastBrowserError,
                   hasLogger, pageUrl, pc, navigationStatusCode, reloads, log, call,
                   reported, result, answered, reloadResponse>>

NextInterleaved ==
    \/ Next
    \/ InterleavedIsOpen
    \/ InterleavedScan

\* the session when its callers do not wait for a navigation to finish
SpecInterleaved == Init /\ [][NextInterleaved]_vars

-----------------------------------------------------------------------------
(* Vocabulary of the properties *)

IsScanCall == call.op \in {"scanForA11yIssues", "scanForPrivacy"}

\* a scan call has ended: `result` is how it ended
ScanEnded == pc = "idle" /\ IsScanCall

Returned == result.kind = "value"

\* the success variant carries `results`
IsSuccess == Returned /\ "results" \in DOMAIN result.value

HasScannedUrl == "scannedUrl" \in DOMAIN result.value

\* the URL the engine saw: axeResults.url for the accessibility scan, the
\* current page URL for the privacy scan
ObservedUrl ==
    IF call.op = "scanForA11yIssues" /\ call.outcome.kind = "results"
    THEN call.outcome.url
    ELSE pageUrl

LogHas(entry) == \E i \in 1..Len(log) : log[i] = entry

-----------------------------------------------------------------------------
(* C1 *)

\* C1: whenever a scan call returns a success-variant result, at that moment
\* lastBrowserError is unset, lastNavigationResponse is set and the page
\* handle is open, reloads made by the privacy engine included.
C1_SuccessOnlyWhenNavigated ==
    (ScanEnded /\ IsSuccess) =>
        /\ lastBrowserError = Undefined
        /\ lastNavigationResponse # Undefined
        /\ page = "open"

\* a privacy scan returned a success result after the engine reloaded the page
C1_Witness ==
    /\ ScanEnded
    /\ IsSuccess
    /\ call.op = "scanForPrivacy"
    /\ reloads > 0

-----------------------------------------------------------------------------
(* C2 *)

\* C2: when the latest navigateToUrl had the collaborator report an error E,
\* the next scan call returns {error: E, pageResponseCode: E.statusCode},
\* invokes no engine and does not raise the not-ready fault.
C2_NavigationErrorReturned ==
    (ScanEnded /\ call.reported # Undefined) =>
        /\ result = [kind |-> "value",
                     value |-> [error |-> call.reported,
                                pageResponseCode |-> call.reported.statusCode]]
        /\ ~call.engine

\* a scan was called after a navigation that reported an error
C2_Witness ==
    /\ ScanEnded
    /\ call.reported # Undefined
    /\ call.page = "open"
    /\ Returned

-----------------------------------------------------------------------------
(* C3 *)

\* C3 as stated: with no page handle (create() not called) or a closed one
\* (close() has run), a scan call fails with the not-ready fault, whatever
\* navigations were made before.
C3_NotReadyWheneverNotCreatedOrClosed ==
    (ScanEnded /\ call.page # "open") => result = NotReadyFault

\* C3, amended: with no page handle or a closed one, a scan call invokes no
\* engine and returns no success result; it fails with the not-ready fault
\* unless the last navigation left a browser error recorded, and then it
\* returns the failure result carrying that error.
C3_NotReadyUnlessErrorRecorded ==
    (ScanEnded /\ call.page # "open") =>
        /\ ~call.engine
        /\ IF call.error = Undefined
           THEN result = NotReadyFault
           ELSE result = [kind |-> "value",
                          value |-> [error |-> call.error,
                                     pageResponseCode |-> call.error.statusCode]]

\* a scan was called after close() on a session that had navigated successfully
C3_Witness ==
    /\ ScanEnded
    /\ call.page = "closed"
    /\ call.response # Undefined
    /\ result = NotReadyFault

-----------------------------------------------------------------------------
(* C4 *)

\* C4 as stated: when the gate passes, a scan call returns a result object
\* and raises no fault, whatever the engine does.
C4_GatePassedScanReturnsResult ==
    (ScanEnded /\ call.engine) => Returned

-----------------------------------------------------------------------------
(* C5 *)

\* C5: a privacy scan's success result carries, as results.httpStatusCode and
\* as pageResponseCode, the status of the navigation response that was current
\* when the scan started, whatever the reloads made during the scan returned.
C5_StatusCapturedAtScanStart ==
    (ScanEnded /\ call.op = "scanForPrivacy" /\ IsSuccess) =>
        /\ result.value.results.httpStatusCode = call.response.status
        /\ result.value.pageResponseCode = call.response.status

\* a reload during the scan ended with another status than the scan started with
C5_Witness ==
    /\ ScanEnded
    /\ call.op = "scanForPrivacy"
    /\ IsSuccess
    /\ reloads > 0
    /\ lastNavigationResponse.status # call.response.status

-----------------------------------------------------------------------------
(* C6 *)

\* the session and the browser process, without the record of the calls
Session ==
    <<requestUrl, page, browser, lastNavigationResponse, lastBrowserError, pageUrl>>

\* C6: close() raises no fault in any session state, and a close() right
\* after a close() changes neither the session nor the browser process.
C6_CloseIdempotent ==
    /\ [](call.op = "close" => result = [kind |-> "void"])
    /\ [][(call.op = "close" /\ call'.op = "close") => Session' = Session]_vars

\* close() was called right after close() on a session that had been created
C6_Witness ==
    /\ call.op = "close"
    /\ call.previous = "close"
    /\ call.page = "closed"

-----------------------------------------------------------------------------
(* C7 *)

\* C7: isOpen() is true exactly when the page handle exists, is not closed,
\* no browser error is recorded and a navigation response is set; and a scan
\* call invokes its engine only from a state where all four hold.
C7_IsOpenDecidesScan ==
    /\ IsOpen <=> /\ page \in {"open", "closed"}
                 /\ page # "closed"
                 /\ lastBrowserError = Undefined
                 /\ lastNavigationResponse \in Responses
    /\ (IsScanCall /\ call.engine) =>
           /\ call.page = "open"
           /\ call.error = Undefined
           /\ call.response \in Responses

\* an engine was invoked
C7_Witness ==
    /\ ScanEnded
    /\ call.engine
    /\ IsOpen

-----------------------------------------------------------------------------
(* C8 *)

\* the navigation response has no redirects and the requested URL,
\* percent-encoded, is the URL the engine saw
NoDivergence ==
    /\ lastNavigationResponse # Undefined
    /\ lastNavigationResponse.redirects = 0
    /\ EncodeURI(requestUrl) = ObservedUrl

\* C8 as stated: after a navigation with no redirects and a matching encoded
\* URL, the result of a scan, success or failure variant, has no scannedUrl.
C8_NoScannedUrlInAnyResult ==
    (ScanEnded /\ Returned /\ NoDivergence) => ~HasScannedUrl

\* C8, amended: a success-variant result has no scannedUrl when the navigation
\* response current at the end of the scan has no redirects and the encoded
\* requestUrl is the URL the engine saw; the failure result of an engine fault
\* always carries scannedUrl, the current page URL.
C8_NoScannedUrlInSuccessResult ==
    /\ (ScanEnded /\ IsSuccess /\ NoDivergence) => ~HasScannedUrl
    /\ (ScanEnded /\ Returned /\ call.outcome.kind = "fault") =>
           (HasScannedUrl /\ result.value.scannedUrl = pageUrl)

\* a URL that needed encoding was scanned where it landed
C8_Witness ==
    /\ ScanEnded
    /\ IsSuccess
    /\ NoDivergence
    /\ requestUrl = UrlSpace
    /\ ~HasScannedUrl

-----------------------------------------------------------------------------
(* C9 *)

\* C9 as stated: a scan call made after a successful navigation with a
\* non-empty redirect chain returns a result whose scannedUrl is the URL the
\* engine saw, and logs the redirect warning.
C9_RedirectAlwaysFlaggedAndLogged ==
    (ScanEnded /\ Returned /\ call.error = Undefined
       /\ call.response # Undefined /\ call.response.redirects > 0) =>
        /\ HasScannedUrl
        /\ result.value.scannedUrl = ObservedUrl
        /\ LogHas(RedirectWarning(ObservedUrl))

\* C9, amended: a scan call that returns a success-variant result while the
\* navigation response current at the end of the scan has a non-empty redirect
\* chain has scannedUrl equal to the URL the engine saw, and logs the redirect
\* warning when the controller has a logger.
C9_RedirectFlaggedInSuccessResult ==
    (ScanEnded /\ IsSuccess /\ lastNavigationResponse # Undefined
       /\ lastNavigationResponse.redirects > 0) =>
        /\ HasScannedUrl
        /\ result.value.scannedUrl = ObservedUrl
        /\ hasLogger => LogHas(RedirectWarning(ObservedUrl))

\* a redirected page was scanned whose URL is the requested one
C9_Witness ==
    /\ ScanEnded
    /\ IsSuccess
    /\ lastNavigationResponse.redirects > 0
    /\ EncodeURI(requestUrl) = ObservedUrl
    /\ hasLogger
    /\ HasScannedUrl

-----------------------------------------------------------------------------
(* C10 *)

\* the places of the sub-results that carry an error
ErrorPlaces(subs) == {i \in 1..Len(subs) : "error" \in DOMAIN subs[i]}

FirstPlace(S) == CHOOSE i \in S : \A j \in S : i <= j

\* C10: when the privacy engine returns its sub-results, the result carries
\* `results`; if a sub-result carries an error, the result's error is the
\* first one in list order and every one of them is logged; if none does, the
\* result has no error.
C10_FirstSubResultErrorSurfaced ==
    (ScanEnded /\ call.op = "scanForPrivacy" /\ call.outcome.kind = "results") =>
        LET subs == call.outcome.subResults
            places == ErrorPlaces(subs)
        IN  /\ IsSuccess
            /\ IF places = {}
               THEN "error" \notin DOMAIN result.value
               ELSE /\ "error" \in DOMAIN result.value
                    /\ result.value.error = subs[FirstPlace(places)].error
                    /\ \E i \in 1..Len(log) :
                          /\ log[i].level = "error"
                          /\ "errors" \in DOMAIN log[i]
                          /\ \A j \in places :
                                \E k \in 1..Len(log[i].errors) :
                                   log[i].errors[k] = subs[j].error

-----------------------------------------------------------------------------
(* C11 *)

\* C11: a controller constructed without a logger behaves as one with a
\* logger, except that it logs nothing: the missing logger causes no fault.
\* (With a logger a scan faults with a TypeError only when a failed reload
\* left no navigation response.)
C11_AbsentLoggerNeverFaults ==
    ~hasLogger =>
        /\ log = <<>>
        /\ (ScanEnded /\ result = TypeErrorFault) => lastNavigationResponse = Undefined

-----------------------------------------------------------------------------
(* C12 *)

NavigationState == <<requestUrl, lastBrowserError, lastNavigationResponse>>

\* a step of navigateToUrl, called by the caller or by the reload callback
IsNavigateStep ==
    \/ pc = "idle" /\ pc' = "navigate"
    \/ pc = "navigate" /\ pc' = "idle"
    \/ pc = "privacy" /\ pc' = "reload"
    \/ pc = "reload" /\ pc' = "privacy"

\* C12: requestUrl, lastBrowserError and lastNavigationResponse change only
\* in navigateToUrl; create, close, the scans and the gate leave them as they
\* are, and scanForPrivacy changes them only through the reload callback.
C12_OnlyNavigateWritesNavigationState ==
    [][NavigationState' # NavigationState => IsNavigateStep]_vars

\* a reload during scanForPrivacy replaced the requested URL
C12_Witness ==
    /\ pc = "privacy"
    /\ reloads > 0
    /\ requestUrl # call.requestUrl

-----------------------------------------------------------------------------
(* C13 *)

\* C13: navigateToUrl(url) does not raise when the collaborator reports a
\* failure through the callback; when it has completed requestUrl is url and
\* lastBrowserError is the error reported during this attempt, unset when
\* none was: an error of an earlier attempt does not survive.
C13_ErrorIsThatOfLatestAttempt ==
    (pc = "idle" /\ call.op = "navigateToUrl") =>
        /\ requestUrl = call.url
        /\ lastBrowserError = reported
        /\ reported # Undefined => result = [kind |-> "void"]

\* a navigation without error completed after one that had recorded an error
C13_Witness ==
    /\ pc = "idle"
    /\ call.op = "navigateToUrl"
    /\ call.priorError # Undefined
    /\ result = [kind |-> "void"]
    /\ lastBrowserError = Undefined

-----------------------------------------------------------------------------
(* C17 *)

\* C17: create() calls connect if an endpoint is given and launch otherwise,
\* once, and then opens one page; when the driver faults the fault reaches the
\* caller, no page is opened and isOpen() remains false.
C17_CreateOpensOnePage ==
    (pc = "idle" /\ call.op = "create") =>
        /\ call.driverCalls = IF call.endpoint THEN <<"connect">> ELSE <<"launch">>
        /\ IF result = [kind |-> "void"]
           THEN call.newPages = 1 /\ page = "open"
           ELSE /\ result = [kind |-> "fault", fault |-> "driver"]
                /\ call.newPages = 0
                /\ page = call.page
                /\ call.page # "open" => ~IsOpen

\* connect faulted on a session that had no page
C17_Witness ==
    /\ pc = "idle"
    /\ call.op = "create"
    /\ call.endpoint
    /\ result.kind = "fault"
    /\ call.page = "none"


-----------------------------------------------------------------------------
(* C14 *)

\* the value the latest navigation attempt's collaborator call returned
AnsweredResponse ==
    IF answered.kind = "response" THEN answered.response ELSE Undefined

\* C14: once a navigation attempt has completed, lastNavigationResponse is
\* exactly what that attempt's collaborator call returned, unset when it
\* returned none; after an attempt that returned none isOpen() is false
\* whatever came before, and after an attempt that returned a response on a
\* page still open isOpen() is true.
C14_ResponseIsThatOfLatestAttempt ==
    (pc \in {"idle", "privacy"} /\ answered.kind \in {"response", "undefined"}) =>
        /\ lastNavigationResponse = AnsweredResponse
        /\ answered.kind = "undefined" => ~IsOpen
        /\ (answered.kind = "response" /\ page = "open") => IsOpen

\* a navigation that returned no response has completed after one that had
\* returned a response
C14_Witness ==
    /\ pc = "idle"
    /\ call.op = "navigateToUrl"
    /\ call.priorResponse # Undefined
    /\ answered.kind = "undefined"
    /\ ~IsOpen

-----------------------------------------------------------------------------
(* C15 *)

\* C15: when the reload callback has returned to the privacy engine, one
\* whole navigation to the URL the page was on has run (requestUrl is that
\* URL and the attempt has completed), and the value returned is
\* {success, error} with success true exactly when the new attempt returned
\* a response whose ok is true, and error the error reported in that attempt.
C15_ReloadReportsNewNavigation ==
    (pc = "privacy" /\ reloads > 0) =>
        /\ requestUrl = call.reloadUrl
        /\ answered.kind \in {"response", "undefined"}
        /\ reloadResponse =
              [success |-> (answered.kind = "response" /\ answered.response.ok),
               error |-> reported]

\* a reload got a response that is not ok and reported failure without error
C15_Witness ==
    /\ pc = "privacy"
    /\ reloads > 0
    /\ answered.kind = "response"
    /\ ~answered.response.ok
    /\ reloadResponse = [success |-> FALSE, error |-> Undefined]

-----------------------------------------------------------------------------
(* C16 *)

\* C16: an accessibility scan that passes the gate returns, when the engine
\* returns, a success result without `error` whose pageResponseCode is the
\* status of the most recent navigation response, and, when the engine
\* faults, a failure result with `error` and without `results`.
C16_A11yResultFollowsEngine ==
    (ScanEnded /\ call.op = "scanForA11yIssues" /\ call.engine) =>
        /\ Returned
        /\ IF call.outcome.kind = "results"
           THEN /\ "results" \in DOMAIN result.value
                /\ "error" \notin DOMAIN result.value
                /\ result.value.pageResponseCode = lastNavigationResponse.status
           ELSE /\ "error" \in DOMAIN result.value
                /\ "results" \notin DOMAIN result.value
                /\ result.value.error.cause = call.outcome.fault

\* the engine returned after a navigation answered with status 304
C16_Witness ==
    /\ ScanEnded
    /\ lastNavigationResponse = AnsweredResponse
    /\ call.op = "scanForA11yIssues"
    /\ call.engine
    /\ call.outcome.kind = "results"
    /\ result.value.pageResponseCode = 304

-----------------------------------------------------------------------------
(* C18 *)

\* the URL the redirect check and the seed URL are to use: the URL the
\* caller navigated to or, after a reload, the URL the reload was given
ExpectedSeedUri == IF reloads = 0 THEN call.requestUrl ELSE call.reloadUrl

\* C18: in a success result of a privacy scan the seed URL is the URL the
\* last reload was given, or the caller's URL when the engine did not
\* reload, and the result carries scannedUrl exactly when the response came
\* through a redirect or that URL, encoded, differs from the page's URL.
C18_SeedUriFollowsReload ==
    (ScanEnded /\ call.op = "scanForPrivacy" /\ IsSuccess) =>
        /\ requestUrl = ExpectedSeedUri
        /\ result.value.results.seedUri = ExpectedSeedUri
        /\ HasScannedUrl <=> (\/ lastNavigationResponse.redirects > 0
                              \/ EncodeURI(ExpectedSeedUri) # pageUrl)

\* a success result after a reload of a page that was not on the caller's URL
C18_Witness ==
    /\ ScanEnded
    /\ call.op = "scanForPrivacy"
    /\ IsSuccess
    /\ reloads > 0
    /\ result.value.results.seedUri # call.requestUrl

-----------------------------------------------------------------------------
(* C19 *)

\* isOpen() as the navigation that preceded the one in flight left it
PriorEligible == page = "open" /\ call.priorResponse # Undefined

=============================================================================
